---- MODULE Spec2Model ----
(***************************************************************************)
(* Model of lambda/build.py: one invocation of the command line tool, from *)
(* argparse's processing of the options (main, line 63) through the build, *)
(* package, update and delete phases (main, lines 65-111) and              *)
(* update_and_wait (lines 114-136).                                        *)
(*                                                                         *)
(* The state of one invocation is a record; every step of the script is an *)
(* action A(s, t) relating the record before the step to the record after. *)
(* Spec runs one invocation (variable st).  SpecTwin runs two invocations  *)
(* (st and tw) in lockstep on the same inputs, to compare them.            *)
(***************************************************************************)
EXTENDS Integers, Sequences, FiniteSets, TLC

VARIABLES st, tw

vars == <<st, tw>>

----------------------------------------------------------------------------
(* Bounds and input domains *)

\* at most this many -f/--function options on the command line
MaxFunctions == 2

\* Python's None (unset option, unset environment variable)
None == "None"

\* environment variable names and the values an -e option can carry;
\* "" is what partition("=") yields for "KEY" and for "KEY="
Keys == {"K1", "K2"}
EnvVarValues == {"", "x", "y"}
\* the shell may define K1; the dotenv file defines K2 and may define K1
ShellEnvs == { e \in [Keys -> {None, "shell"}] : e["K2"] = None }
DotEnvFiles == { f \in [Keys -> {None, "file"}] : f["K2"] = "file" }

\* names given with -f, and the name derived from main_package (line 70)
FunctionNames == {"a", "b"}
DefaultFunction == "pkg"
AllFunctions == FunctionNames \cup {DefaultFunction}

\* file contents; NoFile is a path at which nothing exists
NoFile == <<>>
OldBinary == <<"elf", "old">>
BuiltBinary == <<"elf", "built">>
StaleArchive == <<"zip", "bootstrap", "elf", "stale">>
GivenArchive == <<"zip", "bootstrap", "elf", "given">>
DeployedCode == <<"zip", "bootstrap", "elf", "deployed">>

\* exit codes of `go build`
GoReturnCodes == {0, 1, 2}

----------------------------------------------------------------------------
(* Pure helpers *)

\* zipfile.ZipFile(archive, 'w').write(output, "bootstrap"): one entry named
\* bootstrap holding the bytes of the binary
ZipOf(binary) == <<"zip", "bootstrap">> \o binary

\* load_dotenv(dotenv_path=value, override=...) of python-dotenv: every key of
\* the file is set, except that with override=False a key already present in
\* os.environ is left alone
load_dotenv(environ, file, override) ==
    [k \in Keys |->
        IF file[k] = None THEN environ[k]
        ELSE IF environ[k] # None /\ ~override THEN environ[k]
        ELSE file[k]]

\* one external call, as the outside world sees it
Call(op, target, data, creds, ok) ==
    [op |-> op, target |-> target, data |-> data, creds |-> creds, ok |-> ok]

\* open(file, 'rb').read() in update_and_wait: file is main_package on the
\* archive path (line 76) and the packaged archive otherwise (line 106)
ReadFile(s) ==
    IF s.file = "main_package" THEN GivenArchive ELSE s.fs.archive

\* sys.exit(code), or an exception that reaches the top level (code 1)
Exit(s, code, why) ==
    [s EXCEPT !.pc = "exit", !.status = code, !.fatal = why]

----------------------------------------------------------------------------
(* Initial state of an invocation *)

InitState(zip, output, archive, shell, file) ==
    [pc          |-> "parse_args",
     main_is_zip |-> zip,
     args        |-> [role_arn |-> None, build |-> FALSE, update |-> FALSE,
                      functions |-> <<>>, delete |-> FALSE],
     environ     |-> shell,
     environ0    |-> shell,
     dotenv_file |-> file,
     explicit    |-> [k \in Keys |-> None],
     last_opt    |-> None,
     build       |-> FALSE,
     update      |-> FALSE,
     functions   |-> <<>>,
     file        |-> None,
     role_arn    |-> None,
     return_to   |-> None,
     client      |-> None,
     i           |-> 0,
     fs          |-> [output |-> output, archive |-> archive],
     fs0         |-> [output |-> output, archive |-> archive],
     lambda_code |-> [f \in AllFunctions |-> DeployedCode],
     calls       |-> <<>>,
     status      |-> 0,
     fatal       |-> None]

Invocations ==
    { InitState(zip, output, archive, shell, file) :
        zip \in BOOLEAN, output \in {NoFile, OldBinary},
        archive \in {NoFile, StaleArchive},
        shell \in ShellEnvs, file \in DotEnvFiles }

----------------------------------------------------------------------------
(* parser.parse_args(), line 63: argparse runs each option's action in     *)
(* command line order                                                      *)

\* --assume-role ARN
ParseAssumeRole(s, t) ==
    /\ s.pc = "parse_args"
    /\ t = [s EXCEPT !.args.role_arn = "arn:role"]

\* -b/--build
ParseBuild(s, t) ==
    /\ s.pc = "parse_args"
    /\ t = [s EXCEPT !.args.build = TRUE]

\* -u/--update
ParseUpdate(s, t) ==
    /\ s.pc = "parse_args"
    /\ t = [s EXCEPT !.args.update = TRUE]

\* -d/--delete
ParseDelete(s, t) ==
    /\ s.pc = "parse_args"
    /\ t = [s EXCEPT !.args.delete = TRUE]

\* -f/--function NAME (action='append')
ParseFunction(s, t, name) ==
    /\ s.pc = "parse_args"
    /\ Len(s.args.functions) < MaxFunctions
    /\ t = [s EXCEPT !.args.functions = Append(@, name)]

\* -e/--env-var KEY=value: EnvVarAction.__call__
EnvVarAction(s, t, key, value) ==
    /\ s.pc = "parse_args"
    /\ t = IF value = ""
           THEN Exit(s, 1, "ValueError")
           ELSE [s EXCEPT !.environ[key] = value,
                          !.explicit[key] = value,
                          !.last_opt = "-e"]

\* variant of LoadDotEnvAction that calls load_dotenv(override=True)
LoadDotEnvAction_Override(s, t) ==
    /\ s.pc = "parse_args"
    /\ t = [s EXCEPT !.environ = load_dotenv(s.environ, s.dotenv_file, TRUE),
                     !.last_opt = "--load-dotenv"]

\* --load-dotenv [path]: LoadDotEnvAction.__call__
LoadDotEnvAction(s, t) ==
    /\ s.pc = "parse_args"
    /\ t = [s EXCEPT !.environ = load_dotenv(s.environ, s.dotenv_file, FALSE),
                     !.last_opt = "--load-dotenv"]

\* parse_args returns; lines 65-70 derive the locals
ParseArgsReturn(s, t) ==
    /\ s.pc = "parse_args"
    /\ t = [s EXCEPT !.pc = "zip_check",
                     !.build = s.args.build,
                     !.update = s.args.update,
                     !.functions = IF Len(s.args.functions) = 0
                                   THEN <<DefaultFunction>>
                                   ELSE s.args.functions]

----------------------------------------------------------------------------
(* main, lines 72-111 *)

\* variant of ZipBranch that raises the -b error only after the build phase
ZipBranch_CheckAfterBuild(s, t) ==
    /\ s.pc = "zip_check"
    /\ t = IF s.main_is_zip
           THEN IF s.build
                THEN LET c == Call("go_build", "output", NoFile, None, TRUE)
                     IN Exit([s EXCEPT !.calls = Append(@, c),
                                       !.fs.output = BuiltBinary],
                             1, "cannot specify -b if zip file is given")
                ELSE [s EXCEPT !.pc = "update_and_wait",
                               !.file = "main_package",
                               !.role_arn = None,
                               !.return_to = "return_77"]
           ELSE [s EXCEPT !.pc = "implied_flags"]

\* variant of ZipBranch that uploads the archive without looking at -b
ZipBranch_NoCheck(s, t) ==
    /\ s.pc = "zip_check"
    /\ t = IF s.main_is_zip
           THEN [s EXCEPT !.pc = "update_and_wait",
                          !.file = "main_package",
                          !.role_arn = None,
                          !.return_to = "return_77"]
           ELSE [s EXCEPT !.pc = "implied_flags"]

\* lines 72-77: an archive is uploaded as it is
ZipBranch(s, t) ==
    /\ s.pc = "zip_check"
    /\ t = IF s.main_is_zip
           THEN IF s.build
                THEN Exit(s, 1, "cannot specify -b if zip file is given")
                ELSE [s EXCEPT !.pc = "update_and_wait",
                               !.file = "main_package",
                               !.role_arn = None,
                               !.return_to = "return_77"]
           ELSE [s EXCEPT !.pc = "implied_flags"]

\* line 77: return after update_and_wait on the archive path
ReturnAfterZip(s, t) ==
    /\ s.pc = "return_77"
    /\ t = Exit(s, 0, None)

\* variant of ImpliedFlags without the os.path.exists test of line 84
ImpliedFlags_NoExistsCheck(s, t) ==
    /\ s.pc = "implied_flags"
    /\ LET both == ~s.build /\ ~s.update
       IN t = [s EXCEPT !.pc = "build", !.build = s.build \/ both,
                        !.update = s.update \/ both]

\* variant of ImpliedFlags without the implicit -bu of lines 79-81
ImpliedFlags_NoImplicitBoth(s, t) ==
    /\ s.pc = "implied_flags"
    /\ t = [s EXCEPT !.pc = "build",
                     !.build = s.build \/ (s.fs.output = NoFile)]

\* lines 79-85: implicit -bu, and implicit -b when there is no build output
ImpliedFlags(s, t) ==
    /\ s.pc = "implied_flags"
    /\ LET both == ~s.build /\ ~s.update
           build1 == s.build \/ both
           update1 == s.update \/ both
           build2 == build1 \/ (s.fs.output = NoFile)
       IN t = [s EXCEPT !.pc = "build", !.build = build2, !.update = update1]

\* variant of Build that does not look at p.returncode
Build_IgnoreReturnCode(s, t, returncode) ==
    /\ s.pc = "build"
    /\ t = IF ~s.build
           THEN [s EXCEPT !.pc = "update"]
           ELSE LET c == Call("go_build", "output", NoFile, None, returncode = 0)
                IN [s EXCEPT !.calls = Append(@, c), !.pc = "update",
                             !.fs.output = IF returncode = 0 THEN BuiltBinary
                                           ELSE @]

\* lines 87-99: go build
Build(s, t, returncode) ==
    /\ s.pc = "build"
    /\ t = IF ~s.build
           THEN [s EXCEPT !.pc = "update"]
           ELSE LET c == Call("go_build", "output", NoFile, None, returncode = 0)
                    s1 == [s EXCEPT !.calls = Append(@, c)]
                IN IF returncode # 0
                   THEN Exit(s1, 1, "build failed")
                   ELSE [s1 EXCEPT !.pc = "update", !.fs.output = BuiltBinary]

\* lines 101-106: write the archive and call update_and_wait
Package(s, t) ==
    /\ s.pc = "update"
    /\ t = IF ~s.update
           THEN Exit(s, 0, None)
           ELSE LET bytes == ZipOf(s.fs.output)
                    c == Call("write_archive", "archive", bytes, None, TRUE)
                IN [s EXCEPT !.pc = "update_and_wait",
                             !.fs.archive = bytes,
                             !.calls = Append(@, c),
                             !.file = "archive",
                             !.role_arn = s.args.role_arn,
                             !.return_to = "delete_108"]

\* variant of Delete that tests args.delete alone
Delete_NoBuildCheck(s, t) ==
    /\ s.pc = "delete_108"
    /\ t = IF s.args.delete
           THEN LET c == Call("remove", "output", NoFile, None, TRUE)
                IN Exit([s EXCEPT !.fs.output = NoFile,
                                  !.calls = Append(@, c)], 0, None)
           ELSE Exit(s, 0, None)

\* lines 108-111: delete the binary, then main returns
Delete(s, t) ==
    /\ s.pc = "delete_108"
    /\ t = IF s.args.delete /\ s.build
           THEN LET c == Call("remove", "output", NoFile, None, TRUE)
                IN Exit([s EXCEPT !.fs.output = NoFile,
                                  !.calls = Append(@, c)], 0, None)
           ELSE Exit(s, 0, None)

----------------------------------------------------------------------------
(* update_and_wait, lines 114-136 *)

\* lines 115-124: the Lambda client, with assumed or ambient credentials
MakeClient(s, t, ok) ==
    /\ s.pc = "update_and_wait"
    /\ t = IF s.role_arn # None
           THEN LET c == Call("assume_role", s.role_arn, NoFile, "ambient", ok)
                    s1 == [s EXCEPT !.calls = Append(@, c)]
                IN IF ok
                   THEN [s1 EXCEPT !.pc = "upload_loop", !.client = "assumed",
                                   !.i = 1]
                   ELSE Exit(s1, 1, "api error")
           ELSE [s EXCEPT !.pc = "upload_loop", !.client = "ambient", !.i = 1]

\* variant of UpdateFunctionCode that waits for each function right after
\* its upload
UpdateFunctionCode_WaitInline(s, t, ok) ==
    /\ s.pc = "upload_loop"
    /\ t = IF s.i > Len(s.functions)
           THEN [s EXCEPT !.pc = "wait_loop", !.i = 1]
           ELSE LET fn == s.functions[s.i]
                    c == Call("update_function_code", fn, ReadFile(s),
                              s.client, ok)
                    w == Call("wait", fn, NoFile, s.client, TRUE)
                    s1 == [s EXCEPT !.calls = Append(@, c)]
                IN IF ok
                   THEN [s1 EXCEPT !.lambda_code[fn] = ReadFile(s),
                                   !.calls = Append(@, w),
                                   !.i = @ + 1]
                   ELSE Exit(s1, 1, "api error")

\* variant of UpdateFunctionCode that catches the API error and goes on
UpdateFunctionCode_SwallowError(s, t, ok) ==
    /\ s.pc = "upload_loop"
    /\ t = IF s.i > Len(s.functions)
           THEN [s EXCEPT !.pc = "wait_loop", !.i = 1]
           ELSE LET fn == s.functions[s.i]
                    c == Call("update_function_code", fn, ReadFile(s),
                              s.client, ok)
                    s1 == [s EXCEPT !.calls = Append(@, c), !.i = @ + 1]
                IN IF ok
                   THEN [s1 EXCEPT !.lambda_code[fn] = ReadFile(s)]
                   ELSE s1

\* lines 126-132: one iteration of the upload loop, or its end
UpdateFunctionCode(s, t, ok) ==
    /\ s.pc = "upload_loop"
    /\ t = IF s.i > Len(s.functions)
           THEN [s EXCEPT !.pc = "wait_loop", !.i = 1]
           ELSE LET fn == s.functions[s.i]
                    c == Call("update_function_code", fn, ReadFile(s),
                              s.client, ok)
                    s1 == [s EXCEPT !.calls = Append(@, c)]
                IN IF ok
                   THEN [s1 EXCEPT !.lambda_code[fn] = ReadFile(s),
                                   !.i = @ + 1]
                   ELSE Exit(s1, 1, "api error")

\* lines 134-136: one iteration of the wait loop, or its end
Wait(s, t, ok) ==
    /\ s.pc = "wait_loop"
    /\ t = IF s.i > Len(s.functions)
           THEN [s EXCEPT !.pc = s.return_to]
           ELSE LET fn == s.functions[s.i]
                    c == Call("wait", fn, NoFile, s.client, ok)
                    s1 == [s EXCEPT !.calls = Append(@, c)]
                IN IF ok
                   THEN [s1 EXCEPT !.i = @ + 1]
                   ELSE Exit(s1, 1, "api error")

----------------------------------------------------------------------------
(* One invocation *)

Init ==
    /\ st \in Invocations
    /\ tw = st

Next ==
    \/ ParseAssumeRole(st, st') /\ UNCHANGED tw
    \/ ParseBuild(st, st') /\ UNCHANGED tw
    \/ ParseUpdate(st, st') /\ UNCHANGED tw
    \/ ParseDelete(st, st') /\ UNCHANGED tw
    \/ \E name \in FunctionNames :
           ParseFunction(st, st', name) /\ UNCHANGED tw
    \/ \E key \in Keys, value \in EnvVarValues :
           EnvVarAction(st, st', key, value) /\ UNCHANGED tw
    \/ LoadDotEnvAction(st, st') /\ UNCHANGED tw
    \/ ParseArgsReturn(st, st') /\ UNCHANGED tw
    \/ ZipBranch(st, st') /\ UNCHANGED tw
    \/ ReturnAfterZip(st, st') /\ UNCHANGED tw
    \/ ImpliedFlags(st, st') /\ UNCHANGED tw
    \/ \E returncode \in GoReturnCodes :
           Build(st, st', returncode) /\ UNCHANGED tw
    \/ Package(st, st') /\ UNCHANGED tw
    \/ Delete(st, st') /\ UNCHANGED tw
    \/ \E ok \in BOOLEAN : MakeClient(st, st', ok) /\ UNCHANGED tw
    \/ \E ok \in BOOLEAN : UpdateFunctionCode(st, st', ok) /\ UNCHANGED tw
    \/ \E ok \in BOOLEAN : Wait(st, st', ok) /\ UNCHANGED tw

Spec == Init /\ [][Next]_vars

----------------------------------------------------------------------------
(* Two invocations on the same inputs: st is given neither -b nor -u, tw   *)
(* is given both; every other option, the file system, the compiler's exit *)
(* code and the API's answers are the same for the two.                    *)

InitTwin ==
    /\ st \in { s \in Invocations : ~s.main_is_zip }
    /\ tw = [st EXCEPT !.args.build = TRUE, !.args.update = TRUE]

NextTwin ==
    \/ ParseAssumeRole(st, st') /\ ParseAssumeRole(tw, tw')
    \/ ParseDelete(st, st') /\ ParseDelete(tw, tw')
    \/ \E name \in FunctionNames :
           ParseFunction(st, st', name) /\ ParseFunction(tw, tw', name)
    \/ \E key \in Keys, value \in EnvVarValues :
           EnvVarAction(st, st', key, value) /\ EnvVarAction(tw, tw', key, value)
    \/ LoadDotEnvAction(st, st') /\ LoadDotEnvAction(tw, tw')
    \/ ParseArgsReturn(st, st') /\ ParseArgsReturn(tw, tw')
    \/ ZipBranch(st, st') /\ ZipBranch(tw, tw')
    \/ ImpliedFlags(st, st') /\ ImpliedFlags(tw, tw')
    \/ \E returncode \in GoReturnCodes :
           Build(st, st', returncode) /\ Build(tw, tw', returncode)
    \/ Package(st, st') /\ Package(tw, tw')
    \/ Delete(st, st') /\ Delete(tw, tw')
    \/ \E ok \in BOOLEAN : MakeClient(st, st', ok) /\ MakeClient(tw, tw', ok)
    \/ \E ok \in BOOLEAN :
           UpdateFunctionCode(st, st', ok) /\ UpdateFunctionCode(tw, tw', ok)
    \/ \E ok \in BOOLEAN : Wait(st, st', ok) /\ Wait(tw, tw', ok)

SpecTwin == InitTwin /\ [][NextTwin]_vars

----------------------------------------------------------------------------
(* Vocabulary of the properties *)

CallsOf(s, op) == SelectSeq(s.calls, LAMBDA c : c.op = op)

Made(s, op) == \E n \in DOMAIN s.calls : s.calls[n].op = op

Uploads(s) == CallsOf(s, "update_function_code")

Waits(s) == CallsOf(s, "wait")

AllOk(calls) == \A n \in DOMAIN calls : calls[n].ok

\* the update phase ran to its end: every upload and every wait succeeded
UpdateCompleted(s) ==
    /\ Len(Uploads(s)) = Len(s.functions) /\ AllOk(Uploads(s))
    /\ Len(Waits(s)) = Len(s.functions) /\ AllOk(Waits(s))

\* the compiler ran in this invocation and succeeded
BuiltHere(s) ==
    \E n \in DOMAIN s.calls : s.calls[n].op = "go_build" /\ s.calls[n].ok

UsageError(s) ==
    /\ s.pc = "exit"
    /\ s.fatal \in {"ValueError", "cannot specify -b if zip file is given"}

NothingDone(s) ==
    /\ s.fs = s.fs0
    /\ s.calls = <<>>
    /\ s.lambda_code = [f \in AllFunctions |-> DeployedCode]

\* lines 79-85 have run: the invocation is on the source directory path and
\* beyond them (an exit out of the option parsing is not)
PastImpliedFlags(s) ==
    /\ ~s.main_is_zip
    /\ s.pc \notin {"parse_args", "zip_check", "implied_flags"}
    /\ s.fatal # "ValueError"

\* what an observer of an invocation can see: where it is, the environment,
\* the files, the calls it made, the deployed code and its exit status; the
\* effective build/update decision counts once lines 79-85 have run
Observable(s) ==
    [pc |-> s.pc, environ |-> s.environ, fs |-> s.fs, calls |-> s.calls,
     lambda_code |-> s.lambda_code, status |-> s.status, fatal |-> s.fatal,
     functions |-> s.functions,
     phases |-> IF PastImpliedFlags(s) THEN <<s.build, s.update>>
                ELSE <<FALSE, FALSE>>]

----------------------------------------------------------------------------
(* Properties *)

\* C1: when --assume-role was given, every update_function_code and wait call
\* is preceded by a successful assume_role call and carries the assumed
\* credentials, on the source directory path and on the .zip path alike;
\* without --assume-role the calls carry the ambient credentials.
C1_AssumedRoleAlwaysUsed ==
    \A n \in DOMAIN st.calls :
        st.calls[n].op \in {"update_function_code", "wait"} =>
            IF st.args.role_arn # None
            THEN /\ st.calls[n].creds = "assumed"
                 /\ \E m \in 1..(n - 1) :
                        st.calls[m].op = "assume_role" /\ st.calls[m].ok
            ELSE st.calls[n].creds = "ambient"

\* C2: the binary is removed only with -d, after a build that ran in this
\* invocation and an update phase in which every upload and every wait
\* succeeded; a binary that was there before and was not rebuilt is never
\* removed, nor is anything removed after a failed build, with -b alone or
\* with a .zip archive.
C2_DeleteOnlyOwnBuild ==
    /\ (Made(st, "remove") \/ (st.fs.output = NoFile /\ st.fs0.output # NoFile))
          => /\ st.args.delete
             /\ BuiltHere(st)
             /\ UpdateCompleted(st)
             /\ ~st.main_is_zip
    /\ (st.fs0.output # NoFile /\ ~BuiltHere(st)) => st.fs.output = st.fs0.output
    /\ st.fs0.archive # NoFile => st.fs.archive # NoFile
    /\ (st.main_is_zip
          \/ (PastImpliedFlags(st) /\ ~st.update)
          \/ (Made(st, "go_build") /\ ~BuiltHere(st)))
          => /\ ~Made(st, "remove")
             /\ st.fs.output \in {st.fs0.output, BuiltBinary}

C2_Witness ==
    /\ st.pc = "exit"
    /\ st.fs0.output = OldBinary
    /\ st.fs.output = NoFile
    /\ Made(st, "remove")

C4_UsageErrorNoSideEffect ==
    UsageError(st) => st.environ = st.environ0 /\ NothingDone(st)

\* C4 (amended): at a usage error exit the status is nonzero, no file was
\* written or deleted and no compiler run or API call was made; the
\* environment holds whatever the options before the offending one set.
C4_UsageErrorNoExternalEffect ==
    UsageError(st) => st.status # 0 /\ NothingDone(st)

C4_Witness ==
    /\ UsageError(st)
    /\ st.environ # st.environ0
    /\ st.fatal = "ValueError"

\* C5: a .zip positional with -b ends with exit code 1 and without compiler
\* run, archive write, assume_role, update_function_code or wait call.
C5_ZipWithBuildRejected ==
    (st.main_is_zip /\ st.args.build) =>
        /\ NothingDone(st)
        /\ st.pc \in {"parse_args", "zip_check", "exit"}
        /\ st.pc = "exit" => st.status = 1

C5_Witness ==
    /\ st.main_is_zip /\ st.args.build /\ st.args.update /\ st.args.delete
    /\ st.args.role_arn # None
    /\ st.pc = "exit"
    /\ st.fatal = "cannot specify -b if zip file is given"

\* C6: with -u alone on a source directory, when nothing exists at the output
\* path the build is activated and the compiler has succeeded before the
\* archive is written or anything is uploaded; when a file exists there the
\* compiler is not run and the archive holds that file.
C6_UpdateOnlyImpliesBuild ==
    (PastImpliedFlags(st) /\ ~st.main_is_zip /\ st.args.update /\ ~st.args.build)
    => IF st.fs0.output = NoFile
       THEN /\ st.build
            /\ \A n \in DOMAIN st.calls :
                  st.calls[n].op \in {"write_archive", "update_function_code"}
                  => /\ n > 1
                     /\ st.calls[1].op = "go_build" /\ st.calls[1].ok
       ELSE /\ ~st.build
            /\ ~Made(st, "go_build")
            /\ \A n \in DOMAIN st.calls :
                  st.calls[n].op \in {"write_archive", "update_function_code"}
                  => st.calls[n].data = ZipOf(st.fs0.output)

C6_Witness ==
    /\ ~st.main_is_zip /\ st.args.update /\ ~st.args.build
    /\ st.fs0.output = NoFile
    /\ Made(st, "update_function_code")

\* C7: on a source directory, the invocation without -b and -u and the
\* invocation with both go through the same steps, make the same calls and
\* end in the same state.
C7_NeitherEqualsBoth ==
    Observable(st) = Observable(tw)

C7_Witness ==
    /\ ~st.args.build /\ ~st.args.update
    /\ tw.args.build /\ tw.args.update
    /\ st.pc = "exit" /\ tw.pc = "exit"
    /\ Made(st, "remove")
    /\ st.fs0.output = OldBinary

\* C8: a failed compiler run is the last thing the invocation does: exit
\* code 1, no archive written, no API call, nothing deleted, no second run.
C8_BuildFailureStops ==
    \A n \in DOMAIN st.calls :
        (st.calls[n].op = "go_build" /\ ~st.calls[n].ok) =>
            /\ st.calls = <<st.calls[n]>>
            /\ st.pc = "exit" /\ st.status = 1
            /\ st.fs = st.fs0
            /\ st.lambda_code = [f \in AllFunctions |-> DeployedCode]

C8_Witness ==
    /\ Made(st, "go_build") /\ ~BuiltHere(st)
    /\ st.update /\ st.args.delete /\ st.fs0.archive = StaleArchive

\* C9: update_function_code is called for the targets in list order, once
\* each and with the same bytes; no wait is made before every upload has
\* returned; wait is called for the targets in list order, once each; exit 0
\* after the update phase means every wait succeeded.
C9_UploadAllThenWaitAll ==
    LET ups == Uploads(st)
        waits == Waits(st)
    IN /\ Len(ups) <= Len(st.functions)
       /\ \A n \in DOMAIN ups : /\ ups[n].target = st.functions[n]
                                /\ ups[n].data = ups[1].data
                                /\ ups[n].data = ReadFile(st)
                                /\ n < Len(ups) => ups[n].ok
       /\ Len(waits) <= Len(st.functions)
       /\ \A n \in DOMAIN waits : /\ waits[n].target = st.functions[n]
                                  /\ n < Len(waits) => waits[n].ok
       /\ waits # <<>> => Len(ups) = Len(st.functions) /\ AllOk(ups)
       /\ \A m, n \in DOMAIN st.calls :
             (st.calls[m].op = "update_function_code" /\ st.calls[n].op = "wait")
             => m < n
       /\ (st.pc = "exit" /\ st.status = 0 /\ st.file # None)
             => UpdateCompleted(st)

C9_Witness ==
    /\ st.pc = "exit" /\ st.status = 0
    /\ Len(st.args.functions) = 2
    /\ st.functions[1] # st.functions[2]
    /\ Len(Waits(st)) = 2

\* C10: a failed update_function_code ends the invocation with a nonzero
\* status: the earlier targets keep the new code, no later target is
\* uploaded to, no wait is made, and the binary and the archive stay as
\* written, with -d too.
C10_UploadFailureNoRollback ==
    \A n \in DOMAIN st.calls :
        (st.calls[n].op = "update_function_code" /\ ~st.calls[n].ok) =>
            LET k == Len(Uploads(st))
                done == { st.functions[j] : j \in 1..(k - 1) }
            IN /\ n = Len(st.calls)
               /\ st.pc = "exit" /\ st.status # 0
               /\ st.calls[n].target = st.functions[k]
               /\ \A f \in done : st.lambda_code[f] = ReadFile(st)
               /\ \A f \in AllFunctions \ done : st.lambda_code[f] = DeployedCode
               /\ Waits(st) = <<>>
               /\ ~Made(st, "remove")
               /\ st.fs.output = IF BuiltHere(st) THEN BuiltBinary
                                 ELSE st.fs0.output
               /\ st.fs.archive = IF st.main_is_zip THEN st.fs0.archive
                                  ELSE ZipOf(st.fs.output)

C10_Witness ==
    /\ st.pc = "exit"
    /\ Len(Uploads(st)) = 2 /\ ~AllOk(Uploads(st))
    /\ st.functions[1] # st.functions[2]
    /\ st.args.delete /\ BuiltHere(st)
    /\ st.lambda_code[st.functions[1]] = ZipOf(BuiltBinary)

====
